---- MODULE Spec2Model ----
(***************************************************************************)
(* ExamFlow: the exam runner (frontend/pages/ExamRunner.tsx), the session  *)
(* calls of the API layer (frontend/services/api.ts) and the resume        *)
(* labelling of the student dashboard (StudentDashboard, second component  *)
(* of frontend/pages/AdminResults.tsx).                                    *)
(*                                                                         *)
(* The runner is modelled for one (exam, student) pair.  One React commit  *)
(* is one step: a handler's state updates and the effects that the         *)
(* resulting render runs (auto-submit watcher, fallback debounce) belong   *)
(* to the same action.  The backend is not part of the sources; its three  *)
(* session endpoints are modelled from the specification (SrvStart,        *)
(* SrvSave, SrvSubmit).                                                    *)
(***************************************************************************)
EXTENDS Integers, Sequences, FiniteSets, TLC

\* ------------------------------------------------------------------ bounds
\* largest remainingSeconds a fresh session starts with
MaxTime == 2

\* -------------------------------------------------------------------- data
ExamId == "e1"
StudentId == "u1"
Questions == {"q1", "q2"}
NoAns == "none"
\* q1 is a single-choice question with options A, B; q2 is an image upload
AnswerValues(q) == IF q = "q1" THEN {"A", "B"} ELSE {"url"}
IsImageQuestion(q) == q = "q2"
CorrectAnswer == [q1 |-> "A", q2 |-> NoAns]
MaxScoreOf == [q1 |-> 1, q2 |-> 2]
EmptyAnswers == [q \in Questions |-> NoAns]
Null == [null |-> TRUE]
\* Date.now() / new Date(start_time).getTime(): a positive epoch time
StartTs == [v |-> 7]

\* JSON fields of a stored cache entry: absent, a string, or a number
Missing == [t |-> "missing"]
Str(x) == [t |-> "str", s |-> x]
Num(x) == [t |-> "num", n |-> x]

VARIABLES
    phase,        \* "dashboard" | "starting" | "running" | "result" | "left": the view shown
    session,      \* useState session: Null or the StudentExamSession
    timeLeft,     \* useState timeLeft
    loading,      \* useState loading
    debounce,     \* saveTimeoutRef holds a pending 800 ms timeout
    startResp,    \* POST /start in flight: Null, [stage |-> "sent"] or the response
    submitReq,    \* POST /submit in flight: Null or the request with its stage
    saveReq,      \* PUT /session in flight: Null or its payload
    upload,       \* POST /media/upload in flight: Null or the closure of handleImageSelect
    cache,        \* localStorage entry exam_session_<examId>_<studentId>: Null or the entry
    srv,          \* the backend's session record for (examId, studentId)
    finalized,    \* history: a submit of this session has succeeded in the client
    persistRaised,\* history: a saveExamProgress promise was rejected
    persisted,    \* history: the saveExamProgress call of the last step (its argument and
                  \* whether localStorage.setItem succeeded), or Null
    dialog,       \* history: the last step opened the confirmation dialog
    alertMsg,     \* history: the alert() shown by the last step, or "none"
    \* ---- student dashboard
    now,          \* new Date() while the dashboard loads
    fetchOk,      \* getStudentResults resolves (TRUE) or rejects (FALSE)
    rows,         \* the rows the backend returns from POST /api/student/results
    store,        \* localStorage: exam id |-> what is stored under exam_session_<id>_<user>
    dashLoading,  \* useState loading of the dashboard
    examStatusMap,\* useState examStatusMap: exam id |-> "resumable" | "submitted" | "none"
    examReasonMap,\* useState examReasonMap: exam id |-> "server" | "local" |
                  \* "local-invalid" | "local-error" | "none"
    \* ---- result details
    revQ,         \* the question of one card of the question breakdown
    userAnswer,   \* session.answers[q.id] of that card
    qScore,       \* session.questionScores?.[q.id] of that card, -1 when undefined
    badge,        \* the status badge rendered for the card, or Null
    rdSession,    \* useState session of ResultDetails: Null or the displayed session
    updatingQ,    \* useState updatingQ: Null or [q |-> question id]
    gradeReq,     \* POST /api/student/results/grade: the requests in flight, oldest first
    rdAlert,      \* history: the alert() shown by the last step of ResultDetails
    lastGrade,    \* history: the arguments of the handleGrade call of the last step, or Null
    \* ---- exam definition
    durationMinutes, \* Exam.duration_minutes of the exam being started (0: the exam of the
                  \* runner model, which lasts MaxTime seconds)
    \* ---- several runner tabs on one session
    tabAnswers,   \* tab |-> session.answers of the runner open in that tab
    issued,       \* number of PUT /session requests sent so far
    putQ,         \* the PUT /session requests in flight, in issue order
    arrivedLog,   \* history: the PUT /session requests the backend handled, in arrival order
    \* ---- who opens the result page
    view,         \* Null, or [user, target, stage]: currentUser, the studentId of the
                  \* route and how far loadData got: "mounting" | "rejected" |
                  \* "loading" (the three requests are out) | "shown" | "notfound" | "failed"
    fault,        \* Null, or [action, err, shown]: a blocking action whose request failed
                  \* with the axios error err, and the message the user got ("pending":
                  \* not yet)
    lookup        \* Null, or [page, ids, bank, questions, render]: exam.question_ids, the
                  \* ids of the questions that still exist, the questions state of the
                  \* page and the outcome of its render ("pending" | "ok" | "TypeError")

vars == <<phase, session, timeLeft, loading, debounce, startResp, submitReq,
          saveReq, upload, cache, srv, finalized, persistRaised, persisted,
          dialog, alertMsg, now, fetchOk, rows, store, dashLoading, examStatusMap,
          examReasonMap, revQ, userAnswer, qScore, badge, rdSession, updatingQ,
          gradeReq, rdAlert, lastGrade, durationMinutes, tabAnswers, issued, putQ,
          arrivedLog, view, fault, lookup>>

runnerVars == <<phase, session, timeLeft, loading, debounce, startResp, submitReq,
                saveReq, upload, cache, srv, finalized, persistRaised, persisted,
                dialog, alertMsg>>

dashVars == <<now, fetchOk, rows, store, dashLoading, examStatusMap, examReasonMap>>

cardVars == <<revQ, userAnswer, qScore, badge>>

resultVars == <<rdSession, updatingQ, gradeReq, rdAlert, lastGrade>>

examVars == <<durationMinutes>>

\* the state outside the runner, the dashboard and the result page
sideVars == <<tabAnswers, issued, putQ, arrivedLog, view, fault, lookup>>

\* ------------------------------------------------------------ api.ts (pure)
\* { ...session, remainingSeconds: timeLeft }
Snap(s, t) == [s EXCEPT !.remainingSeconds = t]

\* variant: the PUT carries an empty answer map
SavePayloadDropsAnswers(snap) ==
    [answers |-> EmptyAnswers, remaining_seconds |-> snap.remainingSeconds]

\* saveExamProgress: payload of the PUT
SavePayload(snap) == [answers |-> snap.answers, remaining_seconds |-> snap.remainingSeconds]

\* JSON.stringify({ ...session }) as stored under the key of (examId, studentId)
Stringify(snap) ==
    [examId |-> Str(snap.examId), studentId |-> Str(snap.studentId),
     status |-> Str(snap.status), remainingSeconds |-> Num(snap.remainingSeconds),
     startTime |-> Num(snap.startTime), answers |-> snap.answers]

\* variant: the local write is left to the continuation after the PUT
LocalWriteSkipped(c, snap, localOk) == c

\* saveExamProgress: the inner try/catch around localStorage.setItem
LocalWrite(c, snap, localOk) == IF localOk THEN Stringify(snap) ELSE c

\* variant: no outer catch, a failed PUT rejects the promise
SaveSettlesRethrows(netOk) == IF netOk THEN "resolved" ELSE "rejected"

\* saveExamProgress: how the promise settles after the PUT (outer try/catch returns)
SaveSettles(netOk) == "resolved"

\* submitExam: the request as sent by handleFinishExam
SubmitRequest(s, t, manual) ==
    [answers |-> s.answers, remainingSeconds |-> t, manual |-> manual, stage |-> "sent"]

\* variant: the status of the response is not read
MapStartIgnoresStatus(data) ==
    [examId |-> ExamId, studentId |-> StudentId, startTime |-> StartTs.v,
     answers |-> data.answers, remainingSeconds |-> data.remaining_seconds,
     status |-> "in_progress"]

\* variant: the remaining seconds are read from a field the response does not have
MapStartNoRemaining(data) ==
    [examId |-> ExamId, studentId |-> StudentId, startTime |-> StartTs.v,
     answers |-> data.answers, remainingSeconds |-> 0,
     status |-> data.status]

\* variant: the stored answers are not taken over
MapStartDropsAnswers(data) ==
    [examId |-> ExamId, studentId |-> StudentId, startTime |-> StartTs.v,
     answers |-> EmptyAnswers, remainingSeconds |-> data.remaining_seconds,
     status |-> data.status]

\* startExamSession: mapping of the backend response to the local shape
MapStart(data) ==
    [examId |-> ExamId, studentId |-> StudentId, startTime |-> StartTs.v,
     answers |-> data.answers, remainingSeconds |-> data.remaining_seconds,
     status |-> data.status]

\* ------------------------------------------------------- ExamRunner (pure)
\* variant: the watcher fires one second early
AutoSubmitEarly(t, s, l) ==
    /\ t <= 1
    /\ s # Null
    /\ s.status # "submitted"
    /\ ~l
    /\ s.startTime > 0

\* variant: the watcher does not wait for the loading flag to be cleared
AutoSubmitDueWhileLoading(t, s, l) ==
    /\ t = 0
    /\ s # Null
    /\ s.status # "submitted"
    /\ s.startTime > 0

\* the condition of the auto-submit watcher effect
AutoSubmitDue(t, s, l) ==
    /\ t = 0
    /\ s # Null
    /\ s.status # "submitted"
    /\ ~l
    /\ s.startTime > 0

\* variant: the answer given in the confirmation dialog is not looked at
FinishOutcomeIgnoresAnswer(s, l, manual, confirmed) ==
    IF s = Null \/ l THEN "skip" ELSE "submit"

\* variant: the confirmation is asked on the automatic path too
FinishOutcomeAlwaysAsks(s, l, manual, confirmed) ==
    IF s = Null \/ l THEN "skip"
    ELSE IF ~confirmed THEN "declined"
    ELSE "submit"

\* handleFinishExam up to the request: "skip" (guard), "declined" or "submit"
FinishOutcome(s, l, manual, confirmed) ==
    IF s = Null \/ l THEN "skip"
    ELSE IF manual /\ ~confirmed THEN "declined"
    ELSE "submit"

\* handleFinishExam: window.confirm is opened only on the manual path
OpensDialog(s, l, manual) == ~(s = Null \/ l) /\ manual

\* handleAnswerChange / handleImageSelect: { ...session, answers: { ...answers, [q]: val } }
WithAnswer(s, q, val) == [s EXCEPT !.answers = [@ EXCEPT ![q] = val]]

\* variant: the interval callback takes two seconds off per tick
TickValueSkips(prev) == IF prev <= 1 THEN 0 ELSE prev - 2

\* the 1 s interval callback: setTimeLeft(prev => prev <= 0 ? 0 : prev - 1)
TickValue(prev) == IF prev <= 0 THEN 0 ELSE prev - 1

\* --------------------------------------------- backend (from the specification)
NoScores == [q \in Questions |-> -1]
\* auto-grading at submission: single choice scores max_score or 0, image upload stays ungraded
AutoGrade(answers) ==
    [q \in Questions |->
        IF IsImageQuestion(q) THEN -1
        ELSE IF answers[q] = CorrectAnswer[q] THEN MaxScoreOf[q] ELSE 0]

SrvNone == [status |-> "none", answers |-> EmptyAnswers, remaining |-> 0, scores |-> NoScores]

\* what the backend may hold for (examId, studentId) when the student opens the runner:
\* nothing, a session in progress left by an earlier visit, or a submitted one
StoredSessions ==
    {SrvNone}
    \cup {[status |-> "in_progress", answers |-> a, remaining |-> r, scores |-> NoScores] :
            a \in {[EmptyAnswers EXCEPT !["q1"] = "B"]}, r \in 0..MaxTime}
    \cup {[status |-> "submitted", answers |-> EmptyAnswers, remaining |-> 0,
            scores |-> AutoGrade(EmptyAnswers)]}

\* duration_minutes x 60
DurationSeconds(minutes) == minutes * 60

\* POST /api/exams/:id/start of an exam that lasts the given number of seconds: the
\* stored session, or a fresh one when there is none
SrvStartFor(s, seconds) ==
    IF s.status = "none"
    THEN [status |-> "in_progress", answers |-> EmptyAnswers, remaining |-> seconds,
          scores |-> NoScores]
    ELSE s

\* POST /api/exams/:id/start of the runner model's exam, which lasts MaxTime seconds
SrvStart(s) == SrvStartFor(s, MaxTime)

\* variant: a save is applied whatever the status of the session
SrvSaveAnyStatus(s, p) == [s EXCEPT !.answers = p.answers]

\* PUT /api/exams/:id/session: answers of a submitted session are immutable.  The
\* remaining seconds of the payload are only read by a later start; what a start
\* returns is drawn in StoredSessions, so the record keeps the value it started with.
SrvSave(s, p) ==
    IF s.status = "in_progress"
    THEN [s EXCEPT !.answers = p.answers]
    ELSE s

\* variant: a submitted session is accepted and graded again
SrvSubmitAcceptsAny(s) == s.status # "none"

\* POST /api/exams/:id/submit; a session that is not in progress is rejected
SrvSubmitAccepts(s) == s.status = "in_progress"

\* POST /api/exams/:id/submit: grade the final answer map and finalise the session
SrvSubmit(s, answers) ==
    IF SrvSubmitAccepts(s)
    THEN [s EXCEPT !.status = "submitted", !.answers = answers, !.scores = AutoGrade(answers)]
    ELSE s

\* ------------------------------------------- StudentDashboard (pure part)
\* largest row count of the results response
MaxRows == 1
\* latest clock value at which the dashboard loads
MaxNow == 2

UserId == "u1"
\* the exams of fetchExams('student'), in list order, with their windows
Exams == << [id |-> "e1", start_time |-> 0, end_time |-> 1],
            [id |-> "e2", start_time |-> 1, end_time |-> 2] >>
ExamIds == {Exams[i].id : i \in DOMAIN Exams}

\* rows of the results response: exam_id / student_id may be absent
RowSet ==
    [exam_id : {Missing, Str("e1"), Str("e2")},
     student_id : {Missing, Str("u1"), Str("u2")},
     shape : {[status |-> "submitted", remaining_seconds |-> Num(0)],
              [status |-> "in_progress", remaining_seconds |-> Missing],
              [status |-> "in_progress", remaining_seconds |-> Num(5)]}]
RowLists == UNION {[1..n -> RowSet] : n \in 0..MaxRows}

\* what localStorage.getItem / JSON.parse yield for one key: no item, text that does
\* not parse, the JSON value null, or an object.  Objects carry the field names
\* saveExamProgress writes; ids are strings.
Absent == [kind |-> "absent"]
Garbage == [kind |-> "garbage"]
JsonNull == [kind |-> "null"]
EntryShapes ==
    {[status |-> Str("in_progress"), remainingSeconds |-> Num(5), startTime |-> Num(7)],
     [status |-> Missing,            remainingSeconds |-> Num(5), startTime |-> Num(7)],
     [status |-> Str("submitted"),   remainingSeconds |-> Num(5), startTime |-> Num(7)],
     [status |-> Str("in_progress"), remainingSeconds |-> Num(0), startTime |-> Num(7)],
     [status |-> Str("in_progress"), remainingSeconds |-> Str("5"), startTime |-> Num(7)],
     [status |-> Str("in_progress"), remainingSeconds |-> Missing, startTime |-> Num(7)],
     [status |-> Str("in_progress"), remainingSeconds |-> Num(5), startTime |-> Num(0)],
     [status |-> Str("in_progress"), remainingSeconds |-> Num(5), startTime |-> Missing]}
Object(e, u, sh) ==
    [kind |-> "object", examId |-> e, studentId |-> u, status |-> sh.status,
     remainingSeconds |-> sh.remainingSeconds, startTime |-> sh.startTime]
EntrySet ==
    {Absent, Garbage, JsonNull}
    \cup {Object(e, u, sh) : e \in {Missing, Str("e1"), Str("e2")},
                             u \in {Missing, Str("u1"), Str("u2")}, sh \in EntryShapes}
\* what the key of exam e holds after runner visits of this student: nothing, or the
\* entry saveExamProgress wrote for that exam
WrittenEntries(e) ==
    {Absent, Object(Str(e), Str(UserId), [status |-> Str("in_progress"),
                    remainingSeconds |-> Num(5), startTime |-> Num(7)])}
\* one key holds an arbitrary entry, the other keys hold nothing or a written entry
Stores ==
    LET written == {st \in [ExamIds -> UNION {WrittenEntries(o) : o \in ExamIds}] :
                       \A o \in ExamIds : st[o] \in WrittenEntries(o)}
    IN  UNION {{[w EXCEPT ![e] = x] : x \in EntrySet, w \in written} : e \in ExamIds}

\* a ?? b
Coalesce(a, b) == IF a = Missing THEN b ELSE a
\* String(x) of an id field
JsString(f) == IF f.t = "str" THEN f.s ELSE "?"

\* getStudentResults: the try/catch of the caller turns a rejection into []
MapRow(d) ==
    [examId |-> d.exam_id, studentId |-> d.student_id, status |-> d.shape.status,
     remainingSeconds |-> Coalesce(d.shape.remaining_seconds, Num(0))]
StudentResults(ok, rs) == IF ok THEN [i \in DOMAIN rs |-> MapRow(rs[i])] ELSE << >>

\* resultsMap: rows of this user indexed by exam id, a later row replacing an earlier one
KeepsRow(r, userId) ==
    /\ r.examId # Missing
    /\ r.studentId # Missing
    /\ JsString(r.studentId) = userId
ResultsMapAt(results, userId, examId) ==
    LET idx == {i \in DOMAIN results :
                   KeepsRow(results[i], userId) /\ JsString(results[i].examId) = examId}
    IN  IF idx = {} THEN Null
        ELSE results[CHOOSE i \in idx : \A j \in idx : j <= i]

IsServerSessionValid(sess, examId, userId) ==
    IF sess = Null THEN FALSE
    ELSE IF sess.examId = Missing \/ sess.studentId = Missing THEN FALSE
    ELSE JsString(sess.examId) = examId /\ JsString(sess.studentId) = userId

\* variant: missing ids default to the exam and user at hand
IsLocalSessionResumableDefaulting(localSess, examId, userId, t, end) ==
    IF localSess.kind # "object" THEN FALSE
    ELSE LET remaining == Coalesce(localSess.remainingSeconds, Num(0))
             status == Coalesce(localSess.status, Str("in_progress"))
             start == Coalesce(localSess.startTime, Num(0))
         IN  /\ status # Str("submitted")
             /\ remaining.t = "num" /\ remaining.n > 0
             /\ start.t = "num" /\ start.n > 0
             /\ ~(t > end)
             /\ JsString(Coalesce(localSess.examId, Str(examId))) = examId
             /\ JsString(Coalesce(localSess.studentId, Str(userId))) = userId

IsLocalSessionResumable(localSess, examId, userId, t, end) ==
    IF localSess.kind # "object" THEN FALSE
    ELSE IF localSess.examId = Missing \/ localSess.studentId = Missing THEN FALSE
    ELSE LET remaining == Coalesce(localSess.remainingSeconds, Num(0))
             status == Coalesce(localSess.status, Str("in_progress"))
             start == Coalesce(localSess.startTime, Num(0))
         IN  /\ status # Str("submitted")
             /\ remaining.t = "num" /\ remaining.n > 0
             /\ start.t = "num" /\ start.n > 0
             /\ ~(t > end)
             /\ JsString(localSess.examId) = examId
             /\ JsString(localSess.studentId) = userId

NoLabel == [status |-> "none", source |-> "none"]

\* the branch of the load loop taken for a valid server session
ServerLabel(sess, t, end) ==
    IF sess.status = "submitted" THEN [status |-> "submitted", source |-> "server"]
    ELSE IF sess.remainingSeconds.n > 0 /\ t <= end
         THEN [status |-> "resumable", source |-> "server"]
    ELSE NoLabel

\* variant: the fallback does not look at the exam's end time
LocalLabelNoExpiry(entry, examId, userId, t, end) ==
    IF entry = Absent THEN NoLabel
    ELSE IF entry = Garbage THEN [status |-> "none", source |-> "local-error"]
    ELSE IF IsLocalSessionResumable(entry, examId, userId, t, t)
         THEN [status |-> "resumable", source |-> "local"]
    ELSE [status |-> "none", source |-> "local-invalid"]

\* the fallback branch: getItem, JSON.parse (throws on text that is no JSON),
\* isLocalSessionResumable; the reason map records a refused or unreadable entry
LocalLabel(entry, examId, userId, t, end) ==
    IF entry = Absent THEN NoLabel
    ELSE IF entry = Garbage THEN [status |-> "none", source |-> "local-error"]
    ELSE IF IsLocalSessionResumable(entry, examId, userId, t, end)
         THEN [status |-> "resumable", source |-> "local"]
    ELSE [status |-> "none", source |-> "local-invalid"]

\* variant: the local fallback is also consulted when the server session gives no label
LabelExamFallsBack(e, results, st, userId, t) ==
    LET sess == ResultsMapAt(results, userId, e.id) IN
    IF sess # Null /\ IsServerSessionValid(sess, e.id, userId)
          /\ ServerLabel(sess, t, e.end_time) # NoLabel
    THEN ServerLabel(sess, t, e.end_time)
    ELSE LocalLabel(st[e.id], e.id, userId, t, e.end_time)

\* one iteration of the load loop for exam e
LabelExam(e, results, st, userId, t) ==
    LET sess == ResultsMapAt(results, userId, e.id) IN
    IF sess # Null /\ IsServerSessionValid(sess, e.id, userId)
    THEN ServerLabel(sess, t, e.end_time)
    ELSE LocalLabel(st[e.id], e.id, userId, t, e.end_time)

NoLabels == [id \in ExamIds |-> "none"]

\* the action a student's exam card offers, with the clock t read by the render
\* variant: the time window is not consulted
CardActionIgnoresWindow(e, status, t) ==
    IF status = "submitted" THEN "Submitted"
    ELSE IF status = "resumable" THEN "Resume Exam"
    ELSE "Start Exam"

\* StudentDashboard's card: isActive picks the link or button, otherwise a
\* disabled button names the side of the window the clock is on
CardAction(e, status, t) ==
    LET isActive == t >= e.start_time /\ t <= e.end_time
        isSubmitted == status = "submitted"
        isResumable == status = "resumable"
    IN  IF isActive
        THEN IF isSubmitted THEN "Submitted"
             ELSE IF isResumable THEN "Resume Exam"
             ELSE "Start Exam"
        ELSE IF t < e.start_time THEN "Not Started Yet" ELSE "Expired"

DashIdle ==
    /\ now = 0
    /\ fetchOk = TRUE
    /\ rows = << >>
    /\ store = [id \in ExamIds |-> Absent]
    /\ dashLoading = TRUE
    /\ examStatusMap = NoLabels
    /\ examReasonMap = NoLabels

\* ------------------------------------------------- ResultDetails (pure)
\* longest option list of a multi-choice answer or correct answer
MaxListLen == 2

Options == {"A", "B"}
\* a JSON array of option strings
Lst(x) == [t |-> "list", l |-> x]
OptionLists == UNION {[1..n -> Options] : n \in 0..MaxListLen}
ListSet(l) == {l[i] : i \in DOMAIN l}

\* the questions a card may show; correct_answers is a string for single choice and
\* text, an array for multi choice
CardQuestions ==
    {[type |-> "single_choice", correct_answers |-> Str(c), max_score |-> 2] :
        c \in Options \cup {""}}
    \cup {[type |-> "multi_choice", correct_answers |-> Lst(l), max_score |-> 2] :
            l \in OptionLists}
    \cup {[type |-> "text", correct_answers |-> Str(""), max_score |-> 2],
          [type |-> "image_upload", correct_answers |-> Str(""), max_score |-> 2]}
\* session.answers[q.id]: undefined, a string or an array
CardAnswers == {Missing} \cup {Str(o) : o \in Options} \cup {Lst(l) : l \in OptionLists}

\* Array.prototype.includes
Includes(l, v) == \E i \in DOMAIN l : l[i] = v
IsArray(x) == x.t = "list"

\* variant: single choice compared with == (an array of one string equals that string)
IsCorrectLoose(q, ans) ==
    IF q.type = "single_choice"
    THEN \/ ans.t = "str" /\ ans = q.correct_answers
         \/ IsArray(ans) /\ Len(ans.l) = 1 /\ Str(ans.l[1]) = q.correct_answers
    ELSE IF q.type = "multi_choice"
    THEN /\ IsArray(ans)
         /\ IsArray(q.correct_answers)
         /\ Len(q.correct_answers.l) = Len(ans.l)
         /\ \A i \in DOMAIN q.correct_answers.l : Includes(ans.l, q.correct_answers.l[i])
    ELSE FALSE

\* isCorrect; === on two arrays compares references, so it is false for arrays
IsCorrect(q, ans) ==
    IF q.type = "single_choice"
    THEN ans.t = "str" /\ ans = q.correct_answers
    ELSE IF q.type = "multi_choice"
    THEN /\ IsArray(ans)
         /\ IsArray(q.correct_answers)
         /\ Len(q.correct_answers.l) = Len(ans.l)
         /\ \A i \in DOMAIN q.correct_answers.l : Includes(ans.l, q.correct_answers.l[i])
    ELSE FALSE

IsManual(q) == q.type \in {"text", "image_upload"}

\* backend auto-grading of one question (from the specification): max_score when the
\* answer is correct, else 0
AutoScore(q, ans) ==
    IF q.type = "single_choice"
    THEN IF ans = q.correct_answers THEN q.max_score ELSE 0
    ELSE IF IsArray(ans) /\ ListSet(ans.l) = ListSet(q.correct_answers.l)
         THEN q.max_score ELSE 0
\* the entry of the score map for the card: absent (-1), the auto-graded score, or for a
\* manual question any grade an admin has set
StoredScores(q, ans) ==
    IF IsManual(q) THEN -1 .. q.max_score ELSE {-1, AutoScore(q, ans)}

\* score ?? d
OrElse(score, d) == IF score = -1 THEN d ELSE score

\* the status badge of one card of the question breakdown
Badge(q, ans, score) ==
    LET correct == ~IsManual(q) /\ IsCorrect(q, ans) IN
    IF IsManual(q)
    THEN IF score # -1 THEN [kind |-> "graded", shown |-> score]
         ELSE [kind |-> "pending", shown |-> -1]
    ELSE IF correct THEN [kind |-> "correct", shown |-> OrElse(score, q.max_score)]
    ELSE [kind |-> "incorrect", shown |-> OrElse(score, 0)]

\* the browser tabs that hold the runner of one session
Tabs == {1, 2}

\* no second tab, no view other than the runner, the dashboard and the result page
SideIdle ==
    /\ tabAnswers = [t \in Tabs |-> EmptyAnswers]
    /\ issued = 0
    /\ putQ = << >>
    /\ arrivedLog = << >>
    /\ view = Null
    /\ fault = Null /\ lookup = Null

CardIdle ==
    /\ revQ = [type |-> "text", correct_answers |-> Str(""), max_score |-> 2]
    /\ userAnswer = Missing
    /\ qScore = -1
    /\ badge = Null

ResultIdle ==
    /\ rdSession = Null
    /\ updatingQ = Null
    /\ gradeReq = << >>
    /\ rdAlert = "none"
    /\ lastGrade = Null

\* ------------------------------------------------------------------- Init
Init ==
    /\ DashIdle
    /\ durationMinutes = 0
    /\ CardIdle
    /\ ResultIdle
    /\ SideIdle
    /\ phase = "dashboard"
    /\ session = Null
    /\ timeLeft = 0
    /\ loading = TRUE
    /\ debounce = FALSE
    /\ startResp = Null
    /\ submitReq = Null
    /\ saveReq = Null
    /\ upload = Null
    /\ cache = Null
    /\ srv \in StoredSessions
    /\ finalized = FALSE
    /\ persistRaised = FALSE
    /\ persisted = Null
    /\ dialog = FALSE
    /\ alertMsg = "none"

\* ---------------------------------------------------------------- helpers
\* variant: the effect does not look at the loading flag
DebounceArmedWhileLoading(s, l) == s # Null /\ s.status # "submitted"

\* the fallback auto-save effect arms the 800 ms timeout
DebounceArmed(s, l) == s # Null /\ s.status # "submitted" /\ ~l

\* variant: neither the watcher nor handleFinishExam looks at the loading flag
CommitIgnoresLoading(s, t, l, req, dlg) ==
    IF t = 0 /\ s # Null /\ s.status # "submitted" /\ s.startTime > 0
    THEN /\ loading' = TRUE
         /\ debounce' = FALSE
         /\ submitReq' = SubmitRequest(s, t, FALSE)
         /\ dialog' = dlg
    ELSE /\ loading' = l
         /\ debounce' = DebounceArmed(s, l)
         /\ submitReq' = req
         /\ dialog' = dlg

\* One commit of the runner with state (s, t, l): the auto-submit watcher calls
\* handleFinishExam(false) when due; otherwise the fallback effect re-arms the
\* debounce.  req is the submit request left in flight by the handler, dlg
\* whether the handler itself opened the confirmation dialog.
Commit(s, t, l, req, dlg) ==
    IF AutoSubmitDue(t, s, l) /\ FinishOutcome(s, l, FALSE, FALSE) = "submit"
    THEN /\ loading' = TRUE
         /\ debounce' = FALSE
         /\ submitReq' = SubmitRequest(s, t, FALSE)
         /\ dialog' = (dlg \/ OpensDialog(s, l, FALSE))
    ELSE /\ loading' = l
         /\ debounce' = DebounceArmed(s, l)
         /\ submitReq' = req
         /\ dialog' = dlg

\* saveExamProgress(snap) up to its await: synchronous local write, then the PUT is sent
Persist(snap, localOk) ==
    /\ saveReq \in {Null, SavePayload(snap)}
    /\ cache' = LocalWrite(cache, snap, localOk)
    /\ saveReq' = SavePayload(snap)
    /\ persisted' = [snap |-> snap, localOk |-> localOk]

\* the component unmounts: effect cleanups run and its state is dropped
Unmount ==
    /\ session' = Null
    /\ timeLeft' = 0
    /\ loading' = TRUE
    /\ debounce' = FALSE
    /\ upload' = IF upload = Null THEN Null ELSE [upload EXCEPT !.orphan = TRUE]

\* ------------------------------------------------------ start / resume
\* the student opens /student/exam/:examId; initializeExam sends POST /start
Mount ==
    /\ phase = "dashboard"
    /\ phase' = "starting"
    /\ startResp' = [stage |-> "sent"]
    /\ alertMsg' = "none"
    /\ UNCHANGED <<dashVars, cardVars, resultVars, examVars, sideVars>>
    /\ dialog' = FALSE
    /\ UNCHANGED <<session, timeLeft, loading, debounce, submitReq, saveReq,
                   upload, cache, srv, finalized, persistRaised>> /\ persisted' = Null

\* the backend handles POST /start
StartArrive ==
    /\ startResp = [stage |-> "sent"]
    /\ srv' = IF durationMinutes = 0 THEN SrvStart(srv)
              ELSE SrvStartFor(srv, DurationSeconds(durationMinutes))
    /\ startResp' = [stage |-> "ok", status |-> srv'.status, answers |-> srv'.answers,
                     remaining_seconds |-> srv'.remaining]
    /\ alertMsg' = "none"
    /\ UNCHANGED <<dashVars, cardVars, resultVars, examVars, sideVars>>
    /\ dialog' = FALSE
    /\ UNCHANGED <<phase, session, timeLeft, loading, debounce, submitReq, saveReq,
                   upload, cache, finalized, persistRaised>> /\ persisted' = Null

\* the request or its response is lost
StartLost ==
    /\ startResp # Null
    /\ startResp.stage \in {"sent", "ok"}
    /\ startResp' = [stage |-> "err"]
    /\ alertMsg' = "none"
    /\ UNCHANGED <<dashVars, cardVars, resultVars, examVars, sideVars>>
    /\ dialog' = FALSE
    /\ UNCHANGED <<phase, session, timeLeft, loading, debounce, submitReq, saveReq,
                   upload, cache, srv, finalized, persistRaised>> /\ persisted' = Null

\* initializeExam after the awaits: redirect when submitted, else load the session
StartReturn ==
    /\ startResp # Null
    /\ startResp.stage = "ok"
    /\ startResp' = Null
    /\ LET sess == MapStart(startResp) IN
         IF sess.status = "submitted"
         THEN /\ phase' = "result"
              /\ dialog' = FALSE
              /\ UNCHANGED <<session, timeLeft, loading, debounce, submitReq>>
         ELSE /\ phase' = "running"
              /\ session' = sess
              /\ timeLeft' = sess.remainingSeconds
              /\ Commit(sess, sess.remainingSeconds, FALSE, submitReq, FALSE)
    /\ alertMsg' = "none"
    /\ UNCHANGED <<dashVars, cardVars, resultVars, examVars, sideVars>>
    /\ UNCHANGED <<saveReq, upload, cache, srv, finalized, persistRaised>> /\ persisted' = Null

\* initializeExam, catch: alert and back to the dashboard
StartFailure ==
    /\ startResp = [stage |-> "err"]
    /\ startResp' = Null
    /\ phase' = "left"
    /\ alertMsg' = "Failed to load exam"
    /\ UNCHANGED <<dashVars, cardVars, resultVars, examVars, sideVars>>
    /\ dialog' = FALSE
    /\ UNCHANGED <<session, timeLeft, loading, debounce, submitReq, saveReq,
                   upload, cache, srv, finalized, persistRaised>> /\ persisted' = Null

\* ------------------------------------------------------------ countdown
\* the interval of the timer effect fires; it exists while the session is loaded.  At 0
\* the callback clears the interval and leaves 0, so further ticks change nothing.
Tick ==
    /\ phase = "running"
    /\ session # Null
    /\ session.status # "submitted"
    /\ timeLeft' = TickValue(timeLeft)
    /\ IF timeLeft' # timeLeft
       THEN Commit(session, timeLeft', loading, submitReq, FALSE)
       ELSE dialog' = FALSE /\ UNCHANGED <<loading, debounce, submitReq>>
    /\ alertMsg' = "none"
    /\ UNCHANGED <<dashVars, cardVars, resultVars, examVars, sideVars>>
    /\ UNCHANGED <<phase, session, startResp, saveReq, upload, cache, srv, finalized,
                   persistRaised>> /\ persisted' = Null

\* ---------------------------------------------------------- answer edits
\* handleAnswerChange on a choice/text input of question q
AnswerChange(q, val) ==
    /\ phase = "running"
    /\ ~loading
    /\ session # Null
    /\ ~IsImageQuestion(q)
    /\ val \in AnswerValues(q)
    /\ session.answers[q] # val
    /\ LET updatedSession == WithAnswer(session, q, val) IN
         /\ session' = updatedSession
         /\ \E localOk \in BOOLEAN : Persist(Snap(updatedSession, timeLeft), localOk)
         /\ Commit(updatedSession, timeLeft, loading, submitReq, FALSE)
    /\ alertMsg' = "none"
    /\ UNCHANGED <<dashVars, cardVars, resultVars, examVars, sideVars>>
    /\ UNCHANGED <<phase, timeLeft, startResp, upload, srv, finalized, persistRaised>>

\* handleImageSelect up to its await: the closure keeps session and timeLeft of this render
ImageSelect(q) ==
    /\ phase = "running"
    /\ ~loading
    /\ session # Null
    /\ IsImageQuestion(q)
    /\ upload = Null
    /\ upload' = [q |-> q, sess |-> session, timeLeft |-> timeLeft, orphan |-> FALSE]
    /\ alertMsg' = "none"
    /\ UNCHANGED <<dashVars, cardVars, resultVars, examVars, sideVars>>
    /\ dialog' = FALSE
    /\ UNCHANGED <<phase, session, timeLeft, loading, debounce, startResp, submitReq,
                   saveReq, cache, srv, finalized, persistRaised>> /\ persisted' = Null

\* handleImageSelect after uploadMedia resolved: setSession and saveProgressNow of the closure
UploadDone ==
    /\ upload # Null
    /\ LET updatedSession == WithAnswer(upload.sess, upload.q, "url") IN
         /\ \E localOk \in BOOLEAN : Persist(Snap(updatedSession, upload.timeLeft), localOk)
         /\ IF ~upload.orphan /\ phase = "running"
            THEN /\ session' = updatedSession
                 /\ Commit(updatedSession, timeLeft, loading, submitReq, FALSE)
            ELSE /\ dialog' = FALSE
                 /\ UNCHANGED <<session, loading, debounce, submitReq>>
    /\ upload' = Null
    /\ alertMsg' = "none"
    /\ UNCHANGED <<dashVars, cardVars, resultVars, examVars, sideVars>>
    /\ UNCHANGED <<phase, timeLeft, startResp, srv, finalized, persistRaised>>

\* handleImageSelect, catch: uploadMedia rejected
UploadFail ==
    /\ upload # Null
    /\ upload' = Null
    /\ alertMsg' = "Failed to upload image"
    /\ UNCHANGED <<dashVars, cardVars, resultVars, examVars, sideVars>>
    /\ dialog' = FALSE
    /\ UNCHANGED <<phase, session, timeLeft, loading, debounce, startResp, submitReq,
                   saveReq, cache, srv, finalized, persistRaised>> /\ persisted' = Null

\* ------------------------------------------------------- further persists
\* the 800 ms timeout of the fallback effect fires
DebounceFire ==
    /\ debounce
    /\ debounce' = FALSE
    /\ \E localOk \in BOOLEAN : Persist(Snap(session, timeLeft), localOk)
    /\ alertMsg' = "none"
    /\ UNCHANGED <<dashVars, cardVars, resultVars, examVars, sideVars>>
    /\ dialog' = FALSE
    /\ UNCHANGED <<phase, session, timeLeft, loading, startResp, submitReq, upload,
                   srv, finalized, persistRaised>>

\* Previous / Next button: saveProgressNow(session)
NavSave ==
    /\ phase = "running"
    /\ ~loading
    /\ session # Null
    /\ \E localOk \in BOOLEAN : Persist(Snap(session, timeLeft), localOk)
    /\ alertMsg' = "none"
    /\ UNCHANGED <<dashVars, cardVars, resultVars, examVars, sideVars>>
    /\ dialog' = FALSE
    /\ UNCHANGED <<phase, session, timeLeft, loading, debounce, startResp, submitReq,
                   upload, srv, finalized, persistRaised>>

\* visibilitychange to hidden: the handler of the current render
PageHide ==
    /\ phase = "running"
    /\ IF session # Null /\ session.status # "submitted"
       THEN \E localOk \in BOOLEAN : Persist(Snap(session, timeLeft), localOk)
       ELSE UNCHANGED <<cache, saveReq>> /\ persisted' = Null
    /\ alertMsg' = "none"
    /\ UNCHANGED <<dashVars, cardVars, resultVars, examVars, sideVars>>
    /\ dialog' = FALSE
    /\ UNCHANGED <<phase, session, timeLeft, loading, debounce, startResp, submitReq,
                   upload, srv, finalized, persistRaised>>

\* the tab is closed: beforeunload persists, then every pending callback of the page is gone
CloseTab ==
    /\ phase = "running"
    /\ submitReq = Null
    /\ IF session # Null /\ session.status # "submitted"
       THEN \E localOk \in BOOLEAN : Persist(Snap(session, timeLeft), localOk)
       ELSE UNCHANGED <<cache, saveReq>> /\ persisted' = Null
    /\ phase' = "left"
    /\ session' = Null
    /\ timeLeft' = 0
    /\ loading' = TRUE
    /\ debounce' = FALSE
    /\ upload' = Null
    /\ alertMsg' = "none"
    /\ UNCHANGED <<dashVars, cardVars, resultVars, examVars, sideVars>>
    /\ dialog' = FALSE
    /\ UNCHANGED <<startResp, submitReq, srv, finalized, persistRaised>>

\* in-app navigation away from the runner (navbar link): the component unmounts
Leave ==
    /\ phase = "running"
    /\ phase' = "left"
    /\ Unmount
    /\ alertMsg' = "none"
    /\ UNCHANGED <<dashVars, cardVars, resultVars, examVars, sideVars>>
    /\ dialog' = FALSE
    /\ UNCHANGED <<startResp, submitReq, saveReq, cache, srv, finalized, persistRaised>> /\ persisted' = Null

\* the backend handles an autosave PUT; saveExamProgress resolves
SaveArrive ==
    /\ saveReq # Null
    /\ saveReq' = Null
    /\ srv' = SrvSave(srv, saveReq)
    /\ persistRaised' = (persistRaised \/ SaveSettles(TRUE) = "rejected")
    /\ alertMsg' = "none"
    /\ UNCHANGED <<dashVars, cardVars, resultVars, examVars, sideVars>>
    /\ dialog' = FALSE
    /\ UNCHANGED <<phase, session, timeLeft, loading, debounce, startResp, submitReq,
                   upload, cache, finalized>> /\ persisted' = Null

\* an autosave PUT fails; saveExamProgress logs and returns
SaveLost ==
    /\ saveReq # Null
    /\ saveReq' = Null
    /\ persistRaised' = (persistRaised \/ SaveSettles(FALSE) = "rejected")
    /\ alertMsg' = "none"
    /\ UNCHANGED <<dashVars, cardVars, resultVars, examVars, sideVars>>
    /\ dialog' = FALSE
    /\ UNCHANGED <<phase, session, timeLeft, loading, debounce, startResp, submitReq,
                   upload, cache, srv, finalized>> /\ persisted' = Null

\* ---------------------------------------------------------------- submit
\* the Finish Exam button: handleFinishExam(true)
FinishManual(confirmed) ==
    /\ phase = "running"
    /\ ~loading
    /\ dialog' = OpensDialog(session, loading, TRUE)
    /\ IF FinishOutcome(session, loading, TRUE, confirmed) = "submit"
       THEN /\ loading' = TRUE
            /\ debounce' = FALSE
            /\ submitReq' = SubmitRequest(session, timeLeft, TRUE)
       ELSE UNCHANGED <<loading, debounce, submitReq>>
    /\ alertMsg' = "none"
    /\ UNCHANGED <<dashVars, cardVars, resultVars, examVars, sideVars>>
    /\ UNCHANGED <<phase, session, timeLeft, startResp, saveReq, upload, cache, srv,
                   finalized, persistRaised>> /\ persisted' = Null

\* the backend handles POST /submit
SubmitArrive ==
    /\ submitReq # Null
    /\ submitReq.stage = "sent"
    /\ srv' = SrvSubmit(srv, submitReq.answers)
    /\ submitReq' = [submitReq EXCEPT
                        !.stage = IF SrvSubmitAccepts(srv) THEN "ok" ELSE "rejected"]
    /\ alertMsg' = "none"
    /\ UNCHANGED <<dashVars, cardVars, resultVars, examVars, sideVars>>
    /\ dialog' = FALSE
    /\ UNCHANGED <<phase, session, timeLeft, loading, debounce, startResp, saveReq,
                   upload, cache, finalized, persistRaised>> /\ persisted' = Null

\* the submit request or its response is lost
SubmitLost ==
    /\ submitReq # Null
    /\ submitReq.stage \in {"sent", "ok"}
    /\ submitReq' = [submitReq EXCEPT !.stage = "err"]
    /\ alertMsg' = "none"
    /\ UNCHANGED <<dashVars, cardVars, resultVars, examVars, sideVars>>
    /\ dialog' = FALSE
    /\ UNCHANGED <<phase, session, timeLeft, loading, debounce, startResp, saveReq,
                   upload, cache, srv, finalized, persistRaised>> /\ persisted' = Null

\* submitExam resolved: the cache entry is removed, handleFinishExam navigates to the result
SubmitSuccess ==
    /\ submitReq # Null
    /\ submitReq.stage = "ok"
    /\ submitReq' = Null
    /\ cache' = Null
    /\ finalized' = TRUE
    /\ phase' = "result"
    /\ Unmount
    /\ alertMsg' = "none"
    /\ UNCHANGED <<dashVars, cardVars, resultVars, examVars, sideVars>>
    /\ dialog' = FALSE
    /\ UNCHANGED <<startResp, saveReq, srv, persistRaised>> /\ persisted' = Null

\* variant: the catch forgets setLoading(false)
SubmitFailureKeepsLoading ==
    /\ submitReq # Null
    /\ submitReq.stage \in {"err", "rejected"}
    /\ submitReq' = Null
    /\ dialog' = FALSE
    /\ alertMsg' = "Failed to submit exam. Please try again."
    /\ UNCHANGED <<dashVars, cardVars, resultVars, examVars, sideVars>>
    /\ UNCHANGED <<phase, session, timeLeft, loading, debounce, startResp, saveReq,
                   upload, cache, srv, finalized, persistRaised>>
    /\ persisted' = Null

\* submitExam threw (request lost or rejected by the backend): handleFinishExam's catch
SubmitFailure ==
    /\ submitReq # Null
    /\ submitReq.stage \in {"err", "rejected"}
    /\ IF phase = "running"
       THEN Commit(session, timeLeft, FALSE, Null, FALSE)
       ELSE /\ submitReq' = Null
            /\ dialog' = FALSE
            /\ UNCHANGED <<loading, debounce>>
    /\ alertMsg' = "Failed to submit exam. Please try again."
    /\ UNCHANGED <<dashVars, cardVars, resultVars, examVars, sideVars>>
    /\ UNCHANGED <<phase, session, timeLeft, startResp, saveReq, upload, cache, srv,
                   finalized, persistRaised>> /\ persisted' = Null

\* ------------------------------------------------------------------ Next
Next ==
    \/ Mount
    \/ StartArrive
    \/ StartLost
    \/ StartReturn
    \/ StartFailure
    \/ Tick
    \/ \E q \in Questions : \E val \in AnswerValues(q) : AnswerChange(q, val)
    \/ \E q \in Questions : ImageSelect(q)
    \/ UploadDone
    \/ UploadFail
    \/ DebounceFire
    \/ NavSave
    \/ PageHide
    \/ CloseTab
    \/ Leave
    \/ SaveArrive
    \/ SaveLost
    \/ \E confirmed \in BOOLEAN : FinishManual(confirmed)
    \/ SubmitArrive
    \/ SubmitLost
    \/ SubmitSuccess
    \/ SubmitFailure

Spec == Init /\ [][Next]_vars

\* The student keeps the runner open (no Leave, no CloseTab).  The browser runs every
\* pending callback, and a submit request that is sent again and again eventually
\* reaches the backend.
NextOpen ==
    \/ Mount
    \/ StartArrive
    \/ StartLost
    \/ StartReturn
    \/ StartFailure
    \/ Tick
    \/ \E q \in Questions : \E val \in AnswerValues(q) : AnswerChange(q, val)
    \/ \E q \in Questions : ImageSelect(q)
    \/ UploadDone
    \/ UploadFail
    \/ DebounceFire
    \/ NavSave
    \/ PageHide
    \/ SaveArrive
    \/ SaveLost
    \/ \E confirmed \in BOOLEAN : FinishManual(confirmed)
    \/ SubmitArrive
    \/ SubmitLost
    \/ SubmitSuccess
    \/ SubmitFailure

SpecOpen ==
    /\ Init
    /\ [][NextOpen]_vars
    /\ WF_vars(Tick)
    /\ WF_vars(SubmitFailure)
    /\ SF_vars(SubmitArrive)

\* ------------------------------------------------------- student dashboard
ClientIdle ==
    /\ phase = "dashboard"
    /\ session = Null
    /\ timeLeft = 0
    /\ loading = TRUE
    /\ debounce = FALSE
    /\ startResp = Null
    /\ submitReq = Null
    /\ saveReq = Null
    /\ upload = Null
    /\ cache = Null
    /\ finalized = FALSE
    /\ persistRaised = FALSE
    /\ persisted = Null
    /\ dialog = FALSE
    /\ alertMsg = "none"

RunnerIdle == ClientIdle /\ srv = SrvNone

\* the dashboard mounts with any clock, any results response and any stored entries
InitDash ==
    /\ RunnerIdle
    /\ durationMinutes = 0
    /\ CardIdle
    /\ ResultIdle
    /\ SideIdle
    /\ now \in 0..MaxNow
    /\ fetchOk \in BOOLEAN
    /\ rows \in RowLists
    /\ fetchOk \/ rows = << >>          \* a failed fetch delivers no rows
    /\ store \in Stores
    /\ dashLoading = TRUE
    /\ examStatusMap = NoLabels
    /\ examReasonMap = NoLabels

\* load(): fetch the results once, then label every exam of the list
DashLoad ==
    /\ dashLoading
    /\ LET results == StudentResults(fetchOk, rows)
           label == [id \in ExamIds |->
                        LabelExam(CHOOSE e \in {Exams[i] : i \in DOMAIN Exams} : e.id = id,
                                  results, store, UserId, now)]
       IN  /\ examStatusMap' = [id \in ExamIds |-> label[id].status]
           /\ examReasonMap' = [id \in ExamIds |-> label[id].source]
    /\ dashLoading' = FALSE
    /\ UNCHANGED <<now, fetchOk, rows, store>>
    /\ UNCHANGED <<runnerVars, cardVars, resultVars, examVars, sideVars>>

NextDash == DashLoad

SpecDash == InitDash /\ [][NextDash]_vars

\* the sessions the backend holds: every record names its exam and its student, and
\* there is one record per exam and student
HeldRows ==
    {rs \in RowLists :
        /\ \A i \in DOMAIN rs : rs[i].exam_id # Missing /\ rs[i].student_id # Missing
        /\ \A i, j \in DOMAIN rs :
              (rs[i].exam_id = rs[j].exam_id /\ rs[i].student_id = rs[j].student_id)
                  => i = j}

\* the dashboard mounts while the backend holds the sessions of rows: a successful
\* results call returns them, a failed one returns nothing
InitHeld ==
    /\ RunnerIdle
    /\ durationMinutes = 0
    /\ CardIdle
    /\ ResultIdle
    /\ SideIdle
    /\ now \in 0..MaxNow
    /\ fetchOk \in BOOLEAN
    /\ rows \in HeldRows
    /\ store \in Stores
    /\ dashLoading = TRUE
    /\ examStatusMap = NoLabels
    /\ examReasonMap = NoLabels

SpecHeld == InitHeld /\ [][DashLoad]_vars

\* ------------------------------------------------------ starting an exam
\* longest exam, in minutes
MaxMinutes == 30

\* the student opens an exam of any duration, with any stored session
InitStart ==
    /\ ClientIdle
    /\ DashIdle
    /\ CardIdle
    /\ ResultIdle
    /\ SideIdle
    /\ srv \in StoredSessions
    /\ durationMinutes \in 1 .. MaxMinutes

NextStart ==
    \/ Mount
    \/ StartArrive
    \/ StartLost
    \/ StartReturn
    \/ StartFailure

SpecStart == InitStart /\ [][NextStart]_vars

\* ---------------------------------------------------- result details: cards
\* a card is rendered for any question, stored answer and stored score
InitCard ==
    /\ RunnerIdle
    /\ durationMinutes = 0
    /\ DashIdle
    /\ ResultIdle
    /\ SideIdle
    /\ revQ \in CardQuestions
    /\ userAnswer \in CardAnswers
    /\ qScore \in StoredScores(revQ, userAnswer)
    /\ badge = Null

\* questions.map(...): the card computes correct and its badge
RenderCard ==
    /\ badge = Null
    /\ badge' = Badge(revQ, userAnswer, qScore)
    /\ UNCHANGED <<revQ, userAnswer, qScore>>
    /\ UNCHANGED <<runnerVars, dashVars, resultVars, examVars, sideVars>>

NextCard == RenderCard

SpecCard == InitCard /\ [][NextCard]_vars

\* -------------------------------------------------- result details: grading
\* most grade requests in flight at once
MaxInFlight == 2

\* Number(val) of the grade input: NaN or a number
NaN == [t |-> "nan"]
GradeInputs(m) == {NaN} \cup {Num(n) : n \in -1 .. m + 1}
\* the questions whose card shows the grading controls
ManualQuestions == {q \in Questions : IsImageQuestion(q)}
AnswerMaps == [q1 : {NoAns} \cup AnswerValues("q1"), q2 : {NoAns} \cup AnswerValues("q2")]

NotANumberMsg == "Grade must be a number"
\* `Grade must be between 0 and ${maxScore}`
OutOfRangeMsg == "Grade must be between 0 and max"
UpdateFailedMsg == "Failed to update score"

\* variant: a grade of 0 is refused
GradeCheckRefusesZero(newScore, maxScore) ==
    IF newScore.t = "nan" THEN NotANumberMsg
    ELSE IF newScore.n <= 0 \/ newScore.n > maxScore THEN OutOfRangeMsg
    ELSE "ok"

\* handleGrade's validation: "ok" or the text of the alert
GradeCheck(newScore, maxScore) ==
    IF newScore.t = "nan" THEN NotANumberMsg
    ELSE IF newScore.n < 0 \/ newScore.n > maxScore THEN OutOfRangeMsg
    ELSE "ok"

\* sum of the scores present in a score map (-1: no entry)
RECURSIVE SumOver(_, _)
SumOver(scores, qs) ==
    IF qs = {} THEN 0
    ELSE LET q == CHOOSE x \in qs : TRUE
         IN  (IF scores[q] = -1 THEN 0 ELSE scores[q]) + SumOver(scores, qs \ {q})
SumScores(scores) == SumOver(scores, DOMAIN scores)

\* backend (from the specification): the submitted sessions a result page may open
SubmittedSessions ==
    {[status |-> "submitted", answers |-> a, remaining |-> 0, scores |-> AutoGrade(a)] :
        a \in AnswerMaps}
\* POST /api/student/results/grade: bounded by the question's max_score
SrvGradeAccepts(s, q, n) ==
    /\ s.status = "submitted"
    /\ q \in ManualQuestions
    /\ 0 <= n /\ n <= MaxScoreOf[q]
SrvGrade(s, q, n) == IF SrvGradeAccepts(s, q, n) THEN [s EXCEPT !.scores[q] = n] ELSE s
\* the session row of a response: the total is the sum of the scores present
ResultRow(s) ==
    [status |-> s.status, answers |-> s.answers, score |-> SumScores(s.scores),
     question_scores |-> s.scores]

\* getExamResult: mapping of resp.data[0]
MapResult(d) ==
    [status |-> d.status, answers |-> d.answers, score |-> d.score,
     questionScores |-> d.question_scores]

\* variant: the score map of the response is dropped
MapScoredDropsScores(d) ==
    [status |-> d.status, answers |-> d.answers, score |-> d.score,
     questionScores |-> NoScores]

\* updateSessionScore: mapping of resp.data
MapScored(d) ==
    [status |-> d.status, answers |-> d.answers, score |-> d.score,
     questionScores |-> d.question_scores]

RemoveAt(seq, i) == [j \in 1 .. Len(seq) - 1 |-> IF j < i THEN seq[j] ELSE seq[j + 1]]

\* an admin opens /result/:examId/:studentId of a submitted session
InitResult ==
    /\ ClientIdle
    /\ durationMinutes = 0
    /\ DashIdle
    /\ CardIdle
    /\ ResultIdle
    /\ SideIdle
    /\ srv \in SubmittedSessions

ResultFrame == UNCHANGED <<phase, session, timeLeft, loading, debounce, startResp,
                           submitReq, saveReq, upload, cache, finalized, persistRaised,
                           persisted, dialog, alertMsg>>
                  /\ UNCHANGED <<dashVars, cardVars, examVars, sideVars>>

\* loadData: getExamResult resolves with the stored session
LoadData ==
    /\ rdSession = Null
    /\ rdSession' = MapResult(ResultRow(srv))
    /\ rdAlert' = "none"
    /\ lastGrade' = Null
    /\ UNCHANGED <<srv, updatingQ, gradeReq>>
    /\ ResultFrame

\* handleGrade(q, newScore, q.max_score) from the Enter key or the Update Grade button
Grade(q, newScore) ==
    /\ rdSession # Null
    /\ Len(gradeReq) < MaxInFlight
    /\ lastGrade' = [q |-> q, newScore |-> newScore, maxScore |-> MaxScoreOf[q]]
    /\ IF GradeCheck(newScore, MaxScoreOf[q]) = "ok"
       THEN /\ updatingQ' = [q |-> q]
            /\ gradeReq' = Append(gradeReq, [q |-> q, new_score |-> newScore.n,
                                            stage |-> "sent"])
            /\ rdAlert' = "none"
       ELSE /\ rdAlert' = GradeCheck(newScore, MaxScoreOf[q])
            /\ UNCHANGED <<updatingQ, gradeReq>>
    /\ UNCHANGED <<srv, rdSession>>
    /\ ResultFrame

\* the backend handles the i-th grade request
GradeArrive(i) ==
    /\ gradeReq[i].stage = "sent"
    /\ IF SrvGradeAccepts(srv, gradeReq[i].q, gradeReq[i].new_score)
       THEN /\ srv' = SrvGrade(srv, gradeReq[i].q, gradeReq[i].new_score)
            /\ gradeReq' = [gradeReq EXCEPT ![i] =
                              [q |-> @.q, new_score |-> @.new_score, stage |-> "ok",
                               data |-> ResultRow(srv')]]
       ELSE /\ srv' = srv
            /\ gradeReq' = [gradeReq EXCEPT ![i] =
                              [q |-> @.q, new_score |-> @.new_score, stage |-> "err"]]
    /\ rdAlert' = "none"
    /\ lastGrade' = Null
    /\ UNCHANGED <<rdSession, updatingQ>>
    /\ ResultFrame

\* the i-th request or its response is lost
GradeLost(i) ==
    /\ gradeReq[i].stage \in {"sent", "ok"}
    /\ gradeReq' = [gradeReq EXCEPT ![i] =
                      [q |-> @.q, new_score |-> @.new_score, stage |-> "err"]]
    /\ rdAlert' = "none"
    /\ lastGrade' = Null
    /\ UNCHANGED <<srv, rdSession, updatingQ>>
    /\ ResultFrame

\* handleGrade after updateSessionScore resolves: setSession(updated), finally
GradeReturn(i) ==
    /\ gradeReq[i].stage = "ok"
    /\ rdSession' = MapScored(gradeReq[i].data)
    /\ updatingQ' = Null
    /\ gradeReq' = RemoveAt(gradeReq, i)
    /\ rdAlert' = "none"
    /\ lastGrade' = Null
    /\ UNCHANGED srv
    /\ ResultFrame

\* handleGrade, catch: alert, finally
GradeFailure(i) ==
    /\ gradeReq[i].stage = "err"
    /\ updatingQ' = Null
    /\ gradeReq' = RemoveAt(gradeReq, i)
    /\ rdAlert' = UpdateFailedMsg
    /\ lastGrade' = Null
    /\ UNCHANGED <<srv, rdSession>>
    /\ ResultFrame

NextResult ==
    \/ LoadData
    \/ \E q \in ManualQuestions : \E newScore \in GradeInputs(MaxScoreOf[q]) :
          Grade(q, newScore)
    \/ \E i \in DOMAIN gradeReq : GradeArrive(i)
    \/ \E i \in DOMAIN gradeReq : GradeLost(i)
    \/ \E i \in DOMAIN gradeReq : GradeReturn(i)
    \/ \E i \in DOMAIN gradeReq : GradeFailure(i)

SpecResult == InitResult /\ [][NextResult]_vars

\* ------------------------------------------- ResultDetails: who may load
\* currentUser of the result page; ids are strings, or numbers as some responses carry
Viewers ==
    {[role |-> "student", id |-> Str("u1")], [role |-> "student", id |-> Str("u2")],
     [role |-> "student", id |-> Num(1)],    [role |-> "admin", id |-> Str("a1")]}
\* studentId of the route /result/:examId/:studentId
Targets == {"u1", "u2", "1"}

\* variant: the ids are compared for admins only
RejectsViewerAdminsOnly(user, studentId) == user.role = "admin" /\ user.id # Str(studentId)

\* loadData: currentUser.role === 'student' && currentUser.id !== studentId
RejectsViewer(user, studentId) == user.role = "student" /\ user.id # Str(studentId)

InitView ==
    /\ ClientIdle
    /\ durationMinutes = 0
    /\ DashIdle
    /\ CardIdle
    /\ ResultIdle
    /\ tabAnswers = [t \in Tabs |-> EmptyAnswers] /\ issued = 0
    /\ putQ = << >> /\ arrivedLog = << >>
    /\ fault = Null /\ lookup = Null
    /\ srv \in SubmittedSessions
    /\ view \in [user : Viewers, target : Targets, stage : {"mounting"}]

\* the mount effect runs loadData up to Promise.all: the id check, then the requests
OpenResult ==
    /\ view # Null /\ view.stage = "mounting"
    /\ IF RejectsViewer(view.user, view.target)
       THEN /\ view' = [view EXCEPT !.stage = "rejected"]
            /\ rdAlert' = "Unauthorized"
       ELSE /\ view' = [view EXCEPT !.stage = "loading"]
            /\ rdAlert' = "none"
    /\ UNCHANGED <<rdSession, updatingQ, gradeReq, lastGrade>>
    /\ UNCHANGED <<tabAnswers, issued, putQ, arrivedLog, fault, lookup>>
    /\ UNCHANGED <<runnerVars, dashVars, cardVars, examVars>>

\* loadData after Promise.all settles: the session is set, or there is none
\* ("Result not found"), or a request failed (catch: console.error)
ResultLoaded(outcome) ==
    /\ view # Null /\ view.stage = "loading"
    /\ view' = [view EXCEPT !.stage = outcome]
    /\ rdSession' = IF outcome = "shown" THEN MapResult(ResultRow(srv)) ELSE rdSession
    /\ rdAlert' = IF outcome = "notfound" THEN "Result not found" ELSE "none"
    /\ UNCHANGED <<updatingQ, gradeReq, lastGrade>>
    /\ UNCHANGED <<tabAnswers, issued, putQ, arrivedLog, fault, lookup>>
    /\ UNCHANGED <<runnerVars, dashVars, cardVars, examVars>>

NextView ==
    \/ OpenResult
    \/ \E outcome \in {"shown", "notfound", "failed"} : ResultLoaded(outcome)

SpecView == InitView /\ [][NextView]_vars

\* --------------------------------------- failed requests: what the user reads
\* the blocking actions: login, register, Start Exam on the dashboard, the start
\* of initializeExam in the runner, Finish Exam, Update Grade
BlockingActions == {"login", "register", "start", "runnerStart", "submit", "grade"}

\* the axios error of a failed request: err.response.data.detail, err.response.data
\* when it is a plain body, err.message
FaultErrors ==
    [detail : {Missing, Str("Session already submitted"), Str("Exam is not active"),
               Str("Invalid credentials")},
     data : {Missing, Str("Internal Server Error")},
     message : {Missing, Str("Network Error"), Str("Request failed with status code 400")}]

\* the message of the Error the api function throws: a || b || ... over the fields
ApiMessage(action, err) ==
    LET rest(fallback) == IF err.message # Missing THEN err.message.s ELSE fallback
        body(fallback) == IF err.data # Missing THEN err.data.s ELSE rest(fallback)
    IN  IF err.detail # Missing THEN err.detail.s
        ELSE CASE action = "login" -> rest("Login failed: backend not reachable")
               [] action = "register" -> rest("Register failed: backend not reachable")
               [] action \in {"start", "runnerStart"} ->
                      body("Failed to start exam session on backend")
               [] action = "submit" -> body("Failed to submit session to backend")
               [] action = "grade" -> body("Failed to update session score on backend")

\* the login and register pages (from the specification): the message of the error
AuthPageMessage(msg) == msg

\* the catch block of the caller: what alert() gets
UiMessage(action, msg) ==
    CASE action \in {"login", "register"} -> AuthPageMessage(msg)
      [] action = "start" -> msg
      [] action = "runnerStart" -> "Failed to load exam"
      [] action = "submit" -> "Failed to submit exam. Please try again."
      [] action = "grade" -> UpdateFailedMsg

InitFault ==
    /\ ClientIdle
    /\ durationMinutes = 0
    /\ DashIdle
    /\ CardIdle
    /\ ResultIdle
    /\ tabAnswers = [t \in Tabs |-> EmptyAnswers] /\ issued = 0
    /\ putQ = << >> /\ arrivedLog = << >>
    /\ view = Null /\ lookup = Null
    /\ srv = SrvNone
    /\ fault \in [action : BlockingActions, err : FaultErrors, shown : {"pending"}]

\* the request of the action fails: the api function throws, the caller's catch alerts
Surface ==
    /\ fault # Null /\ fault.shown = "pending"
    /\ fault' = [fault EXCEPT !.shown = UiMessage(fault.action,
                                                 ApiMessage(fault.action, fault.err))]
    /\ UNCHANGED <<tabAnswers, issued, putQ, arrivedLog, view, lookup>>
    /\ UNCHANGED <<runnerVars, dashVars, cardVars, resultVars, examVars>>

SpecFault == InitFault /\ [][Surface]_vars

\* --------------------------------------- exams that list deleted questions
\* most ids an exam lists
MaxIds == 2

QuestionIds == {"a", "b", "c"}

\* examDef.question_ids.map(id => allQuestions.find(q => q.id === id))
\*                     .filter(q => q !== undefined)
ExamQuestions(ids, bank) == SelectSeq(ids, LAMBDA id : id \in bank)

\* the runner's render: questions[currentQIndex] with index 0, then currentQ.id
RunnerRender(questions) == IF Len(questions) = 0 THEN "TypeError" ELSE "ok"

InitLookup ==
    /\ ClientIdle
    /\ durationMinutes = 0
    /\ DashIdle
    /\ CardIdle
    /\ ResultIdle
    /\ tabAnswers = [t \in Tabs |-> EmptyAnswers] /\ issued = 0
    /\ putQ = << >> /\ arrivedLog = << >>
    /\ view = Null /\ fault = Null
    /\ srv = SrvNone
    /\ lookup \in [page : {"runner", "result"},
                   ids : UNION {[1 .. n -> QuestionIds] : n \in 1 .. MaxIds},
                   bank : SUBSET QuestionIds,
                   questions : {<< >>}, render : {"pending"}]

\* initializeExam / loadData set the questions, and the page renders: the runner
\* reads the current question, the result page maps over the list
ShowQuestions ==
    /\ lookup # Null /\ lookup.render = "pending"
    /\ LET examQuestions == ExamQuestions(lookup.ids, lookup.bank) IN
         lookup' = [lookup EXCEPT
                       !.questions = examQuestions,
                       !.render = IF lookup.page = "runner"
                                  THEN RunnerRender(examQuestions) ELSE "ok"]
    /\ UNCHANGED <<tabAnswers, issued, putQ, arrivedLog, view, fault>>
    /\ UNCHANGED <<runnerVars, dashVars, cardVars, resultVars, examVars>>

SpecLookup == InitLookup /\ [][ShowQuestions]_vars

\* ------------------------------------------ several tabs saving one session
\* largest number of PUT /session requests the tabs send
MaxWrites == 2

\* the session a tab holds after startExamSession, with answer map a
TabSession(a) ==
    MapStart([status |-> "in_progress", answers |-> a, remaining_seconds |-> MaxTime])

\* the tabs' side of the autosave traffic
NoTraffic == [answers |-> [t \in Tabs |-> EmptyAnswers], issued |-> 0, puts |-> << >>]

\* handleAnswerChange(q, val) in tab t up to the PUT of saveExamProgress: the tab's
\* answer map is updated and its snapshot is sent, numbered in issue order
Issue(tr, t, q, val) ==
    LET updatedSession == WithAnswer(TabSession(tr.answers[t]), q, val)
        snap == Snap(updatedSession, MaxTime)
    IN  [answers |-> [tr.answers EXCEPT ![t] = updatedSession.answers],
         issued |-> tr.issued + 1,
         puts |-> Append(tr.puts, [tab |-> t, seq |-> tr.issued + 1,
                                   sent |-> updatedSession.answers,
                                   payload |-> SavePayload(snap)])]

InitTabs ==
    /\ ClientIdle
    /\ durationMinutes = 0
    /\ DashIdle
    /\ CardIdle
    /\ ResultIdle
    /\ SideIdle
    /\ srv = SrvStart(SrvNone)

TabFrame == UNCHANGED <<phase, session, timeLeft, loading, debounce, startResp,
                        submitReq, saveReq, upload, finalized, persistRaised,
                        persisted, dialog, alertMsg>>
               /\ UNCHANGED <<dashVars, cardVars, resultVars, examVars>>

\* tab t: handleAnswerChange -> saveProgressNow -> saveExamProgress (local write, PUT sent)
TabAnswer(t, q, val) ==
    /\ issued < MaxWrites
    /\ ~IsImageQuestion(q)
    /\ val \in AnswerValues(q)
    /\ tabAnswers[t][q] # val
    /\ LET tr == Issue([answers |-> tabAnswers, issued |-> issued, puts |-> putQ],
                       t, q, val)
           snap == Snap(WithAnswer(TabSession(tabAnswers[t]), q, val), MaxTime)
       IN  /\ tabAnswers' = tr.answers
           /\ issued' = tr.issued
           /\ putQ' = tr.puts
           /\ \E localOk \in BOOLEAN : cache' = LocalWrite(cache, snap, localOk)
    /\ UNCHANGED <<srv, arrivedLog, view, fault, lookup>>
    /\ TabFrame

\* the backend handles the i-th PUT in flight, whatever its place in the issue order
PutArrive(i) ==
    /\ srv' = SrvSave(srv, putQ[i].payload)
    /\ arrivedLog' = Append(arrivedLog, putQ[i])
    /\ putQ' = RemoveAt(putQ, i)
    /\ UNCHANGED <<tabAnswers, issued, cache, view, fault, lookup>>
    /\ TabFrame

\* the i-th PUT never reaches the backend (saveExamProgress swallows the error)
PutLost(i) ==
    /\ putQ' = RemoveAt(putQ, i)
    /\ UNCHANGED <<srv, tabAnswers, issued, arrivedLog, cache, view, fault, lookup>>
    /\ TabFrame

NextTabs ==
    \/ \E t \in Tabs : \E q \in Questions : \E val \in AnswerValues(q) : TabAnswer(t, q, val)
    \/ \E i \in DOMAIN putQ : PutArrive(i)
    \/ \E i \in DOMAIN putQ : PutLost(i)

SpecTabs == InitTabs /\ [][NextTabs]_vars

\* ------------------------------------- a submitted session: late saves, grading
\* (the image question was answered, so there is something to grade)
\* the autosave traffic still under way when the session was submitted
LateTraffic ==
    {NoTraffic,
     Issue(NoTraffic, 1, "q1", "A"),
     Issue(Issue(NoTraffic, 1, "q1", "A"), 2, "q1", "B")}

InitFinal ==
    /\ ClientIdle
    /\ durationMinutes = 0
    /\ DashIdle
    /\ CardIdle
    /\ ResultIdle
    /\ srv \in {s \in SubmittedSessions : s.answers["q2"] # NoAns}
    /\ \E tr \in LateTraffic :
          /\ tabAnswers = tr.answers
          /\ issued = tr.issued
          /\ putQ = tr.puts
    /\ arrivedLog = << >>
    /\ view = Null
    /\ fault = Null /\ lookup = Null

NextFinal ==
    \/ \E i \in DOMAIN putQ : PutArrive(i)
    \/ NextResult

SpecFinal == InitFinal /\ [][NextFinal]_vars

\* ================================================================== claims
SubmitFailedMsg == "Failed to submit exam. Please try again."

\* a submit request was sent by this step
SubmitIssued == submitReq' # Null /\ submitReq' # submitReq /\ submitReq'.stage = "sent"

\* C1: the backend's status of the session only moves from in_progress to submitted,
\* never back, and once it is submitted no step (in particular no further submit
\* attempt, which is rejected) changes the stored scores.
C1_StatusOnlyForward ==
    [][ /\ srv.status = "in_progress" => srv'.status \in {"in_progress", "submitted"}
        /\ srv.status = "submitted" => srv'.status = "submitted" /\ srv'.scores = srv.scores
      ]_vars

\* a second submit, carrying other answers than the graded ones, was rejected
C1_Witness ==
    /\ srv.status = "submitted"
    /\ submitReq # Null
    /\ submitReq.stage = "rejected"
    /\ AutoGrade(submitReq.answers) # srv.scores

\* C2: with the runner open, once the countdown is at 0 and the session is still in
\* progress, the session is eventually submitted, also after failed automatic submits.
C2_EventuallySubmitted ==
    (phase = "running" /\ timeLeft = 0 /\ srv.status = "in_progress")
        ~> (srv.status = "submitted")

\* the countdown is at 0 and an automatic submit has just failed
C2_Witness ==
    /\ phase = "running"
    /\ timeLeft = 0
    /\ srv.status = "in_progress"
    /\ submitReq # Null
    /\ ~submitReq.manual
    /\ submitReq.stage = "err"

\* C3: an automatic submit is sent only in a step that leaves the countdown at 0, and
\* without the confirmation dialog; and a tick that brings the countdown of an
\* interactive runner to 0 sends it in that very step.
C3_AutoSubmitAtZero ==
    [][ /\ (SubmitIssued /\ ~submitReq'.manual)
              => timeLeft' = 0 /\ submitReq'.remainingSeconds = 0 /\ ~dialog'
        /\ (phase = "running" /\ phase' = "running" /\ ~loading /\ timeLeft > 0 /\ timeLeft' = 0)
              => (SubmitIssued /\ ~submitReq'.manual)
      ]_vars

\* a session loaded with time left has counted down to 0 and its automatic submit is out
C3_Witness ==
    /\ phase = "running"
    /\ timeLeft = 0
    /\ srv.remaining > 0
    /\ submitReq # Null
    /\ ~submitReq.manual
    /\ submitReq.stage = "sent"
    /\ ~dialog

\* C4: once a submit has succeeded in the client, the local cache holds no entry for
\* (examId, studentId), in every later state.
C4_NoEntryAfterSubmit == finalized => cache = Null

\* C5: when a submit request fails, the error is shown; in a mounted runner the session
\* and its answers are unchanged and still in progress, the cache entry is untouched,
\* and the runner is out of its submitting state (a manual submit is possible again)
\* or, with the countdown at 0, has sent the next automatic submit itself.
C5_FailedSubmitKeepsSession ==
    [][ (submitReq # Null /\ submitReq.stage \in {"err", "rejected"} /\ submitReq' # submitReq)
          => /\ alertMsg' = SubmitFailedMsg
             /\ cache' = cache
             /\ phase = "running"
                  => /\ session' = session
                     /\ session'.status = "in_progress"
                     /\ \/ ~loading' /\ submitReq' = Null
                        \/ timeLeft = 0 /\ SubmitIssued
      ]_vars

\* a failed submit left a runner with answers and a cache entry ready for a retry
C5_Witness ==
    /\ alertMsg = SubmitFailedMsg
    /\ phase = "running"
    /\ ~loading
    /\ session.answers # EmptyAnswers
    /\ cache # Null

\* the records a label may rest on
RowMatches(r, id) == r.exam_id = Str(id) /\ r.student_id = Str(UserId)
EntryMatches(en, id) ==
    en.kind = "object" /\ en.examId = Str(id) /\ en.studentId = Str(UserId)
ExamOf(id) == CHOOSE e \in {Exams[i] : i \in DOMAIN Exams} : e.id = id

\* C6: every label rests on a record that names this exam and this student: "submitted"
\* on a fetched row with both ids matching, "resumable" on such a row or on a cache
\* entry that contains both ids and both match.
C6_LabelsNeedMatchingIds ==
    ~dashLoading =>
        \A id \in ExamIds :
            /\ examStatusMap[id] = "submitted" =>
                  /\ examReasonMap[id] = "server"
                  /\ fetchOk
                  /\ \E i \in DOMAIN rows : RowMatches(rows[i], id)
                                            /\ rows[i].shape.status = "submitted"
            /\ examStatusMap[id] = "resumable" =>
                  \/ /\ examReasonMap[id] = "server"
                     /\ fetchOk
                     /\ \E i \in DOMAIN rows : RowMatches(rows[i], id)
                  \/ /\ examReasonMap[id] = "local"
                     /\ EntryMatches(store[id], id)

\* an entry without ids, one of another student and one of another exam gave no label
C6_Witness ==
    /\ ~dashLoading
    /\ \E id \in ExamIds :
          /\ store[id].kind = "object"
          /\ store[id].examId = Missing \/ store[id].studentId # Str(UserId)
                \/ store[id].examId # Str(id)
          /\ store[id].status = Str("in_progress")
          /\ store[id].remainingSeconds = Num(5)
          /\ store[id].startTime = Num(7)
          /\ now <= ExamOf(id).end_time
          /\ examStatusMap[id] = "none"
    /\ \E id \in ExamIds : examStatusMap[id] = "resumable" /\ examReasonMap[id] = "local"

\* what the claim says a server row decides
RowLabel(r, id) ==
    IF r.shape.status = "submitted" THEN "submitted"
    ELSE IF r.shape.remaining_seconds # Missing /\ r.shape.remaining_seconds.n > 0
            /\ now <= ExamOf(id).end_time
         THEN "resumable"
    ELSE "none"

\* C7: when the fetched results hold one row of this student for an exam, the exam's
\* label is what that row alone decides, whatever the local cache holds.
C7_ServerRecordDecides ==
    ~dashLoading =>
        \A id \in ExamIds :
            LET m == {i \in DOMAIN rows : fetchOk /\ RowMatches(rows[i], id)} IN
            Cardinality(m) = 1 =>
                \A i \in m : examStatusMap[id] = RowLabel(rows[i], id)

\* an in-progress row without time left gave no label although the cache entry of the
\* exam looks resumable
C7_Witness ==
    /\ ~dashLoading
    /\ fetchOk
    /\ \E id \in ExamIds :
          /\ \E i \in DOMAIN rows : /\ RowMatches(rows[i], id)
                                    /\ rows[i].shape.status = "in_progress"
                                    /\ rows[i].shape.remaining_seconds = Missing
          /\ EntryMatches(store[id], id)
          /\ store[id].status = Str("in_progress")
          /\ store[id].remainingSeconds = Num(5)
          /\ store[id].startTime = Num(7)
          /\ now <= ExamOf(id).end_time
          /\ examStatusMap[id] = "none"

\* what the claim requires of a cache entry
EntryResumable(en, id) ==
    /\ EntryMatches(en, id)
    /\ en.status # Str("submitted")
    /\ en.remainingSeconds.t = "num" /\ en.remainingSeconds.n > 0
    /\ en.startTime.t = "num" /\ en.startTime.n > 0
    /\ now <= ExamOf(id).end_time

\* C8: without a fetched row of this student for an exam, the exam is labelled
\* "resumable" exactly when its cache entry contains both matching ids, is not
\* submitted, has a number > 0 of remaining seconds and a positive start time, and the
\* exam has not ended; otherwise it has no label.
C8_LocalFallback ==
    ~dashLoading =>
        \A id \in ExamIds :
            (~fetchOk \/ \A i \in DOMAIN rows : ~RowMatches(rows[i], id)) =>
                /\ examStatusMap[id] \in {"resumable", "none"}
                /\ examStatusMap[id] = "resumable" <=> EntryResumable(store[id], id)

\* the fallback labelled one exam from its entry and refused an entry of an ended exam
C8_Witness ==
    /\ ~dashLoading
    /\ \E id \in ExamIds :
          /\ ~fetchOk \/ \A i \in DOMAIN rows : ~RowMatches(rows[i], id)
          /\ examStatusMap[id] = "resumable"
          /\ examReasonMap[id] = "local"
    /\ \E id \in ExamIds :
          /\ EntryMatches(store[id], id)
          /\ store[id].status = Str("in_progress")
          /\ store[id].remainingSeconds = Num(5)
          /\ store[id].startTime = Num(7)
          /\ now > ExamOf(id).end_time
          /\ examStatusMap[id] = "none"

\* C9: a step that changes the runner's answer map changes the entry of one question
\* only, leaves the countdown and the status alone, and persists the new answer map.
C9_SetAnswerFrame ==
    [][ (session # Null /\ session' # Null /\ session'.answers # session.answers)
          => /\ \E q \in Questions :
                    \A o \in Questions \ {q} : session'.answers[o] = session.answers[o]
             /\ timeLeft' = timeLeft
             /\ session'.status = session.status
             /\ persisted' # Null
             /\ persisted'.snap.answers = session'.answers
      ]_vars

\* C10: no saveExamProgress promise is ever rejected; a persist call whose local write
\* succeeds leaves the cache entry equal to the snapshot it was given; and the entry
\* stays as it is when the PUT settles, failed or not.
C10_PersistNeverRaises ==
    [][ /\ ~persistRaised'
        /\ (persisted' # Null /\ persisted'.localOk)
              => /\ cache' # Null
                 /\ cache'.examId = Str(persisted'.snap.examId)
                 /\ cache'.studentId = Str(persisted'.snap.studentId)
                 /\ cache'.status = Str(persisted'.snap.status)
                 /\ cache'.startTime = Num(persisted'.snap.startTime)
                 /\ cache'.remainingSeconds = Num(persisted'.snap.remainingSeconds)
                 /\ cache'.answers = persisted'.snap.answers
        /\ (saveReq # Null /\ saveReq' = Null) => cache' = cache
      ]_vars

\* the PUT of the last edit failed, the backend lacks the answers the cache holds
C10_Witness ==
    /\ phase = "running"
    /\ saveReq = Null
    /\ cache # Null
    /\ cache.answers = session.answers
    /\ srv.status = "in_progress"
    /\ srv.answers # cache.answers
    /\ ~persistRaised

\* C11: for a multi-choice card with an array answer and an array of correct options,
\* the answer is judged correct exactly when the set of submitted options equals the
\* set of correct options.
C11_MultiChoiceSetEquality ==
    (badge # Null /\ revQ.type = "multi_choice" /\ IsArray(userAnswer))
        => (badge.kind = "correct"
               <=> ListSet(userAnswer.l) = ListSet(revQ.correct_answers.l))

\* C12: a single-choice card is judged correct exactly when the stored answer is the
\* correct-answer string; it shows max_score when correct and 0 otherwise, also
\* without an answer.
C12_SingleChoiceExact ==
    (badge # Null /\ revQ.type = "single_choice")
        => /\ badge.kind = "correct" <=> userAnswer = revQ.correct_answers
           /\ badge.kind \in {"correct", "incorrect"}
           /\ badge.shown = IF userAnswer = revQ.correct_answers
                             THEN revQ.max_score ELSE 0

\* a single-choice card without an answer was rendered as incorrect with 0 points
C12_Witness ==
    /\ badge # Null
    /\ revQ.type = "single_choice"
    /\ revQ.correct_answers = Str("A")
    /\ userAnswer = Missing
    /\ badge = [kind |-> "incorrect", shown |-> 0]

\* C13: a handleGrade call sends the grade request exactly when the new score is a
\* number with 0 <= newScore <= max_score; otherwise it shows a message, sends nothing
\* and leaves the displayed session and the stored session as they were.
C13_GradeBounds ==
    [][ lastGrade' # Null =>
          LET ns == lastGrade'.newScore
              m == lastGrade'.maxScore
          IN  IF ns.t = "num" /\ 0 <= ns.n /\ ns.n <= m
              THEN /\ gradeReq' = Append(gradeReq, [q |-> lastGrade'.q, new_score |-> ns.n,
                                                   stage |-> "sent"])
                   /\ rdAlert' = "none"
              ELSE /\ gradeReq' = gradeReq
                   /\ rdAlert' \in {NotANumberMsg, OutOfRangeMsg}
                   /\ rdSession' = rdSession
                   /\ srv' = srv
      ]_vars

\* a grade of max_score + 1 was refused with the range message, nothing in flight
C13_Witness ==
    /\ lastGrade # Null
    /\ lastGrade.newScore = Num(lastGrade.maxScore + 1)
    /\ rdAlert = OutOfRangeMsg
    /\ gradeReq = << >>
    /\ rdSession # Null

\* the scores of a score map are in range: 0 or max_score for an auto-graded question,
\* absent or within [0, max_score] for a manually graded one
ScoresInRange(scores) ==
    \A q \in Questions :
        IF q \in ManualQuestions
        THEN scores[q] \in -1 .. MaxScoreOf[q]
        ELSE scores[q] \in {0, MaxScoreOf[q]}

\* C14: for a submitted session, as stored and as displayed, after any sequence of
\* grade updates the total is the sum of the scores present in the score map, and
\* every score is in range.
C14_TotalIsSum ==
    /\ srv.status = "submitted" => ScoresInRange(srv.scores)
    /\ rdSession # Null =>
          /\ rdSession.score = SumScores(rdSession.questionScores)
          /\ ScoresInRange(rdSession.questionScores)
    /\ \A i \in DOMAIN gradeReq :
          gradeReq[i].stage = "ok" =>
              gradeReq[i].data.score = SumScores(gradeReq[i].data.question_scores)

\* the displayed session shows a correct single choice and a manual grade of 1 of 2
C14_Witness ==
    /\ rdSession # Null
    /\ rdSession.questionScores = [q1 |-> 1, q2 |-> 1]
    /\ rdSession.score = 2
    /\ srv.scores = [q1 |-> 1, q2 |-> 1]
    /\ gradeReq = << >>

\* C15: when start returns a submitted session the runner goes to the result view
\* without setting a session, starting the countdown or issuing a persist or submit
\* request, and the redirected runner stays that way.
C15_SubmittedStartRedirects ==
    [][ /\ (startResp # Null /\ startResp.stage = "ok" /\ startResp.status = "submitted"
               /\ startResp' = Null)
           => /\ phase' = "result"
              /\ session' = Null
              /\ timeLeft' = 0
              /\ submitReq' = Null
              /\ saveReq' = Null
              /\ persisted' = Null
              /\ cache' = cache
        /\ (phase' = "result" /\ ~finalized')
           => /\ session' = Null
              /\ timeLeft' = 0
              /\ submitReq' = Null
              /\ saveReq' = Null
              /\ upload' = Null
              /\ persisted' = Null
              /\ cache' = Null
      ]_vars

\* the runner was redirected to the result view of a session submitted earlier
C15_Witness ==
    /\ phase = "result"
    /\ ~finalized
    /\ srv.status = "submitted"
    /\ session = Null
    /\ startResp = Null

\* C16: a start without a stored session creates a session with duration_minutes x 60
\* remaining seconds, and the countdown of the runner starts from the remaining
\* seconds of the started session.
C16_FreshSessionDuration ==
    [][ /\ (srv.status = "none" /\ srv'.status # "none")
           => /\ srv'.status = "in_progress"
              /\ srv'.remaining = durationMinutes * 60
        /\ (phase = "starting" /\ phase' = "running")
           => /\ timeLeft' = srv.remaining
              /\ session'.remainingSeconds = srv.remaining
      ]_vars

\* an exam of 30 minutes was started afresh and the countdown shows 1800
C16_Witness ==
    /\ durationMinutes = 30
    /\ phase = "running"
    /\ session.answers = EmptyAnswers
    /\ srv.answers = EmptyAnswers
    /\ srv.remaining = 1800
    /\ timeLeft = 1800

\* C17: when the runner loads the session that start returned, its answer map is the
\* stored answer map and its countdown the stored remaining seconds.
C17_ResumeLoadsSession ==
    [][ (phase = "starting" /\ phase' = "running")
          => /\ srv.status = "in_progress"
             /\ session'.answers = srv.answers
             /\ session'.status = "in_progress"
             /\ timeLeft' = srv.remaining
      ]_vars

\* a stored session with an answer and time left was resumed
C17_Witness ==
    /\ phase = "running"
    /\ cache = Null
    /\ saveReq = Null
    /\ srv.status = "in_progress"
    /\ srv.answers["q1"] = "B"
    /\ srv.remaining > 0
    /\ session.answers = srv.answers
    /\ timeLeft = srv.remaining

\* what the loaded dashboard shows on the card of exam id
Shown(id) == CardAction(ExamOf(id), examStatusMap[id], now)

\* the student has no session for exam id: no fetched row and no cached entry
NoSessionFor(id) ==
    /\ \A i \in DOMAIN rows : ~RowMatches(rows[i], id)
    /\ store[id] = Absent

\* C18: on the loaded dashboard an exam whose end_time is in the past and for which
\* the student has no session shows "Expired" and not "Start Exam"; and "Start Exam"
\* is offered only while start_time <= now <= end_time for an exam labelled neither
\* submitted nor resumable.
C18_StartOnlyInWindow ==
    ~dashLoading =>
        \A id \in ExamIds :
            /\ (now > ExamOf(id).end_time /\ NoSessionFor(id)) => Shown(id) = "Expired"
            /\ Shown(id) = "Start Exam" =>
                  /\ ExamOf(id).start_time <= now
                  /\ now <= ExamOf(id).end_time
                  /\ examStatusMap[id] \notin {"submitted", "resumable"}

\* a loaded dashboard with an expired exam without session, and another exam that
\* is inside its window and offered for starting
C18_Witness ==
    /\ ~dashLoading
    /\ \E id \in ExamIds :
          now > ExamOf(id).end_time /\ NoSessionFor(id) /\ Shown(id) = "Expired"
    /\ \E id \in ExamIds : Shown(id) = "Start Exam"

\* C19: while the runner holds a session in progress the countdown never goes below
\* 0 and never goes up; a tick takes exactly 1 off a countdown above 0 and leaves a
\* countdown of 0 alone; and a step that changes the countdown is a tick only: it
\* edits no answer, runs no autosave and reports no failed submit.
C19_CountdownMonotone ==
    [][ (phase = "running" /\ phase' = "running") =>
           /\ timeLeft >= 0 /\ timeLeft' >= 0
           /\ timeLeft' <= timeLeft
           /\ Tick => timeLeft' = (IF timeLeft > 0 THEN timeLeft - 1 ELSE 0)
           /\ timeLeft' # timeLeft =>
                 /\ timeLeft' = timeLeft - 1
                 /\ session' = session
                 /\ persisted' = Null
                 /\ saveReq' = saveReq
                 /\ alertMsg' # SubmitFailedMsg
      ]_vars

\* the countdown has ticked below the loaded value and, after that, an answer edit
\* was written through with the countdown as it stood
C19_Witness ==
    /\ phase = "running"
    /\ session # Null /\ session.status = "in_progress"
    /\ timeLeft > 0
    /\ timeLeft < srv.remaining
    /\ persisted # Null
    /\ persisted.snap.remainingSeconds = timeLeft
    /\ persisted.snap.answers # srv.answers

\* C20: a manual submit request is sent only by a Finish Exam step in which the
\* confirmation dialog was opened and confirmed; and a Finish Exam step in which
\* the student declines sends no request and leaves the session with its answers,
\* the countdown, the loading state, the pending autosave and the backend's
\* record as they were.
C20_DeclineChangesNothing ==
    [][ /\ (SubmitIssued /\ submitReq'.manual) => (dialog' /\ FinishManual(TRUE))
        /\ FinishManual(FALSE) =>
              /\ dialog'
              /\ submitReq' = submitReq
              /\ session' = session
              /\ timeLeft' = timeLeft
              /\ loading' = loading
              /\ debounce' = debounce
              /\ saveReq' = saveReq
              /\ srv' = srv
      ]_vars

\* the student has answered, pressed Finish Exam with time left and declined: the
\* dialog was shown, nothing is loading and no submit request exists
C20_Witness ==
    /\ phase = "running"
    /\ dialog
    /\ ~loading
    /\ submitReq = Null
    /\ timeLeft > 0
    /\ session # Null /\ session.answers # EmptyAnswers

\* C21: once the backend's session is submitted no step changes its status or its
\* answer map: a late autosave that arrives changes nothing at all, a grade update
\* for question q changes at most the score of q (the total being the sum of the
\* scores), and the displayed session keeps its answers.
C21_SubmittedAnswersFrozen ==
    [][ srv.status = "submitted" =>
          /\ srv'.status = "submitted"
          /\ srv'.answers = srv.answers
          /\ srv'.remaining = srv.remaining
          /\ Len(arrivedLog') > Len(arrivedLog) => srv' = srv
          /\ \A i \in DOMAIN gradeReq :
                GradeArrive(i) =>
                    \A o \in Questions \ {gradeReq[i].q} : srv'.scores[o] = srv.scores[o]
          /\ srv'.scores # srv.scores =>
                /\ \E i \in DOMAIN gradeReq : GradeArrive(i)
                /\ ResultRow(srv').score = SumScores(srv'.scores)
          /\ (rdSession # Null /\ rdSession' # Null) => rdSession'.answers = rdSession.answers
      ]_vars

\* two late autosaves with other answers were handled and a manual grade was
\* stored and displayed, and the submitted answers are still the ones shown
C21_Witness ==
    /\ srv.status = "submitted"
    /\ Len(arrivedLog) = 2
    /\ \A i \in DOMAIN arrivedLog : arrivedLog[i].payload.answers # srv.answers
    /\ srv.scores["q2"] = 1
    /\ rdSession # Null
    /\ rdSession.questionScores["q2"] = 1
    /\ rdSession.answers = srv.answers

\* C24: when tabs autosave the same session, the answers the backend holds for the
\* session in progress are those of the write it handled last, whichever tab sent
\* it and wherever it stands in the issue order.
C24_LastArrivalWins ==
    (srv.status = "in_progress" /\ arrivedLog # << >>) =>
        srv.answers = arrivedLog[Len(arrivedLog)].sent

\* two tabs gave different answers to q1; the write issued second was handled
\* first, and the backend ends with the answer of the write issued first
C24_Witness ==
    /\ putQ = << >>
    /\ Len(arrivedLog) = 2
    /\ arrivedLog[1].seq = 2 /\ arrivedLog[2].seq = 1
    /\ arrivedLog[1].tab # arrivedLog[2].tab
    /\ arrivedLog[1].sent["q1"] # arrivedLog[2].sent["q1"]
    /\ srv.answers["q1"] = arrivedLog[2].sent["q1"]
    /\ srv.answers["q1"] # tabAnswers[arrivedLog[1].tab]["q1"]

\* C22: when a student opens the result of another student's id, loadData stops
\* at the id check: the page never gets to the stage where the result, exam and
\* question requests are out, no session is displayed, and the refusal is the
\* "Unauthorized" alert.
C22_ForeignResultRejected ==
    (view # Null /\ view.user.role = "student" /\ view.user.id # Str(view.target)) =>
        /\ view.stage \in {"mounting", "rejected"}
        /\ rdSession = Null
        /\ view.stage = "rejected" => rdAlert = "Unauthorized"

\* student u1 asked for the result of u2 and was refused, nothing displayed
C22_Witness ==
    /\ view # Null
    /\ view.user = [role |-> "student", id |-> Str("u1")]
    /\ view.target = "u2"
    /\ view.stage = "rejected"
    /\ rdAlert = "Unauthorized"
    /\ rdSession = Null

\* C23: while a submit request is in flight, after the submit has succeeded and
\* whenever the runner is not mounted, no debounce timer is pending; and the
\* debounced persist callback only ever fires in a mounted, interactive runner
\* with no submit in flight and no submitted session.
C23_DebounceCancelled ==
    [][ /\ (submitReq' # Null \/ finalized' \/ phase' # "running") => ~debounce'
        /\ DebounceFire =>
              /\ phase = "running"
              /\ ~loading
              /\ submitReq = Null
              /\ ~finalized
              /\ session # Null /\ session.status # "submitted"
      ]_vars

\* the student edited an answer, then confirmed Finish Exam with time left: the
\* submit is in flight and the timer armed by the edit is gone
C23_Witness ==
    /\ phase = "running"
    /\ submitReq # Null /\ submitReq.manual /\ submitReq.stage = "sent"
    /\ timeLeft > 0
    /\ session # Null /\ session.answers # srv.answers
    /\ ~debounce

\* C25: for every blocking action, when the error of the failed request carries a
\* detail message, the message the user gets is that detail, word for word.
C25_DetailShownVerbatim ==
    (fault # Null /\ fault.shown # "pending" /\ fault.err.detail # Missing) =>
        fault.shown = fault.err.detail.s

\* C26: whichever ids of an exam are dangling, all of them included, the runner
\* and the result page end with the remaining questions in exam order and render
\* without an error.
C26_DanglingIdsTolerated ==
    (lookup # Null /\ lookup.render # "pending") =>
        /\ lookup.render = "ok"
        /\ Len(lookup.questions) = Cardinality({i \in DOMAIN lookup.ids :
                                                  lookup.ids[i] \in lookup.bank})
        /\ \A i \in DOMAIN lookup.questions : lookup.questions[i] \in lookup.bank
        /\ \A i, j \in DOMAIN lookup.questions :
              i < j => \E k, l \in DOMAIN lookup.ids :
                          /\ k < l
                          /\ lookup.ids[k] = lookup.questions[i]
                          /\ lookup.ids[l] = lookup.questions[j]

\* the page was hidden or is about to unload in this step
HideOrUnload == PageHide \/ CloseTab

C28_OneSubmitInFlight ==
    [][ /\ SubmitIssued =>
              /\ loading'
              /\ \/ submitReq = Null
                 \/ /\ submitReq.stage \in {"err", "rejected"}
                    /\ alertMsg' = SubmitFailedMsg
        /\ (submitReq # Null /\ submitReq' # Null /\ ~SubmitIssued) =>
              /\ submitReq'.answers = submitReq.answers
              /\ submitReq'.manual = submitReq.manual
              /\ submitReq'.remainingSeconds = submitReq.remainingSeconds
        /\ (submitReq' # Null /\ phase' = "running") => loading'
      ]_vars

\* a confirmed manual submit is in flight, the countdown has since reached 0, and
\* the request in flight is still the manual one
C28_Witness ==
    /\ phase = "running"
    /\ submitReq # Null /\ submitReq.manual /\ submitReq.stage = "sent"
    /\ submitReq.remainingSeconds > 0
    /\ timeLeft = 0
    /\ loading

\* C29: the placeholder 0 of the countdown never causes a submit request.  No submit
\* request exists before the runner has loaded the session; a submit issued in the
\* step that loads the session is the automatic one for a session whose stored
\* remaining time is 0; and the watcher is not due in any of the renders that
\* initializeExam's setSession, setTimeLeft, setLoading can cause one by one (session
\* set with the countdown still 0, then the countdown stored, both while loading).
C29_NoSubmitBeforeLoad ==
    [][ /\ phase' \in {"dashboard", "starting"} => submitReq' = Null
        /\ SubmitIssued =>
              /\ session' # Null
              /\ phase' = "running"
              /\ submitReq'.answers = session'.answers
              /\ submitReq'.remainingSeconds = timeLeft'
        /\ (SubmitIssued /\ phase = "starting") =>
              /\ startResp.remaining_seconds = 0
              /\ ~submitReq'.manual
        /\ (phase = "starting" /\ phase' = "running") =>
              /\ ~AutoSubmitDue(0, Null, TRUE)
              /\ ~AutoSubmitDue(0, session', TRUE)
              /\ ~AutoSubmitDue(timeLeft', session', TRUE)
      ]_vars

\* a session with time left has been loaded and nothing was submitted
C29_Witness ==
    /\ phase = "running"
    /\ session # Null /\ session.startTime > 0
    /\ timeLeft > 0
    /\ ~loading
    /\ submitReq = Null
    /\ srv.status = "in_progress"
    /\ ~finalized

\* the backend holds a submitted session of the current student for exam id
HoldsSubmitted(id) ==
    \E i \in DOMAIN rows : RowMatches(rows[i], id) /\ rows[i].shape.status = "submitted"

\* C30: on the loaded dashboard an exam for which the backend holds a submitted
\* session of the current student is not labelled "resumable", whatever the cache
\* holds and whether or not the results call succeeded.
C30_SubmittedNeverResumable ==
    ~dashLoading =>
        \A id \in ExamIds : HoldsSubmitted(id) => examStatusMap[id] # "resumable"

====
